---- MODULE Spec2Model ----
(***************************************************************************)
(* Model of the Proxmox provisioning scripts of k8s-homelab-setup:         *)
(*   roles/provision_infra/files/create_vm.py    (provisioning run)        *)
(*   roles/provision_infra/files/poll_for_ip.py  (guest address poller)    *)
(*   roles/provision_infra/files/evaluate_proxmox.py  (image check)        *)
(* The hypervisor is the environment: its VM table and its answers to the  *)
(* REST calls (success with a payload, or an exception) are chosen         *)
(* nondeterministically.                                                   *)
(***************************************************************************)
EXTENDS Integers, Sequences, FiniteSets, TLC

VARIABLES
    (* ---- create_vm.py ---- *)
    cfg,        \* environment read at lines 67-69, 98, 157: VM_NAME, VMID, PROXMOX_STORAGE, START_VM
    vms,        \* the node's VM table: sequence of [vmid, name]
    run,        \* number of the current invocation of create_vm.py
    pc,         \* position of the current invocation in main()
    name,       \* local `name` of main()
    vmid,       \* local `vmid` of main()
    storage,    \* local `storage` of main()
    storages,   \* local `storages`: the answer of nodes(node).storage.get()
    env,        \* environment read at lines 128-167
    params,     \* local `params` of main()
    calls,      \* remote calls issued by the current invocation, in order: <<op, ok>>
    stdout,     \* what the current invocation printed on stdout
    exit,       \* exit status of the current invocation
    created,    \* the qemu.post calls issued over all invocations: [vmid, name, ok]
    reports,    \* VM ids printed by the invocations so far
    faulty,     \* some remote call of some invocation has raised
    creds,      \* environment read at lines 40-50: host and credentials
    conn,       \* the ProxmoxAPI(...) call of the current invocation: [mode, ok]
    ended,      \* <<error kind, exit status>> of the earlier invocations that failed
    (* ---- poll_for_ip.py ---- *)
    timeout,    \* parameter `timeout` of fetch_guest_ip, in clock ticks
    interval,   \* parameter `interval` of fetch_guest_ip, in clock ticks
    now,        \* time.time(), in ticks since fetch_guest_ip was called
    deadline,   \* local `deadline` of fetch_guest_ip
    poll,       \* local `poll` of fetch_guest_ip: the attempts started
    ppc,        \* position in fetch_guest_ip
    ip,         \* the value fetch_guest_ip returned
    answers,    \* what the guest agent answered to each attempt, in order
    snapshot,   \* argument of a call of _parse_interfaces_for_ipv4
    parsed,     \* its result, once it has returned
    penv,       \* environment of an invocation of poll_for_ip.py
    mpc,        \* position of the invocation in the module body and main()
    pexit,      \* its exit status
    pout,       \* what it printed on stdout
    outcome,    \* how it ended
    (* ---- evaluate_proxmox.py ---- *)
    ienv,       \* environment read at lines 6-12
    storage_content, \* the answer of storage(...).content.get()
    ipc,        \* position in the module body
    iexit,      \* exit status
    iout,       \* what it printed on stdout
    ioutcome    \* how it ended

provVars == <<cfg, vms, run, pc, name, vmid, storage, storages, env, params,
              calls, stdout, exit, created, reports, faulty, creds, conn, ended>>

pollVars == <<timeout, interval, now, deadline, poll, ppc, ip, answers>>

parseVars == <<snapshot, parsed>>

mainVars == <<penv, mpc, pexit, pout, outcome>>

imageVars == <<ienv, storage_content, ipc, iexit, iout, ioutcome>>

vars == <<provVars, pollVars, parseVars, mainVars, imageVars>>

(***************************************************************************)
(* Values                                                                  *)
(***************************************************************************)
\* Python None for a string-valued variable (os.environ.get of an unset key)
None == "<None>"
\* Python None for vmid (getenv_int("VMID", None) with VMID unset)
NoVmid == 0
\* exit status of an invocation that has not ended
Running == -1
\* an empty dict / a record with no fields
EmptyMap == [k \in {} |-> None]

\* truthiness of a Python str-or-None
Truthy(s) == s # None /\ s # ""

(***************************************************************************)
(* Bounds                                                                  *)
(***************************************************************************)
MaxRuns == 2
MaxStorages == 2
MaxTimeout == 3
MaxInterval == 2
\* longest round trip of one guest-agent query, in ticks
MaxRtt == 1
\* most address entries in one interface snapshot
MaxAddrs == 3

(***************************************************************************)
(* Program constants of create_vm.py                                       *)
(***************************************************************************)
Cores == 2
Sockets == 1
Memory == 2048
Balloon == 0
DiskSize == 8
\* lowest id the cluster hands out from cluster.nextid
FirstId == 100

(***************************************************************************)
(* Input sets                                                              *)
(***************************************************************************)
StorageNames == {"local-lvm", "nfs", "tank"}
\* a storage's `content` string, as its comma-separated classes
Contents == {<<"images">>, <<"iso", "rootdir">>, <<"iso">>}

StorageEntries == [storage : StorageNames, content : Contents]

\* answers of nodes(node).storage.get(): storage ids are unique on a node
Listings ==
    {l \in UNION {[1..n -> StorageEntries] : n \in 0..MaxStorages} :
        \A i, j \in DOMAIN l : i # j => l[i].storage # l[j].storage}

Configs == [name : {"web"}, vmid : {NoVmid, 105}, storage : {"local-lvm", "nfs"}]

\* VM tables the node can have before the first invocation
InitialVms == {<<>>, <<[vmid |-> 100, name |-> "db"]>>}

\* VM_ISO_IMAGE: unset, a bare file name, a full volume id (as tokens)
IsoRaws == {<<>>, <<"ubuntu.iso">>, <<"local", ":", "iso/ubuntu.iso">>}
\* IPCONFIG0: unset, an ip= expression, a bare address (as tokens)
IpConfigs == {<<>>, <<"ip=", "dhcp">>, <<"10.0.0.9">>}

\* the environments read at lines 128-167 with START_VM drawn from S; CLOUDINIT
\* is not read when DISABLE_CLOUDINIT is true
EnvsWith(S) ==
    UNION {[iso_raw : IsoRaws,
            disable_cloudinit : {d},
            cloudinit : IF d THEN {TRUE} ELSE BOOLEAN,
            cipassword : {None, "secret"},
            ipconfig0 : IpConfigs,
            boot : {None, "order=ide2;scsi0"},
            gpu_pci : {None, "0000:01:00"},
            pool : {None, "k8s"},
            tags : {None, "worker"},
            start_vm : S] : d \in BOOLEAN}

Envs == EnvsWith(BOOLEAN)

\* the environments of a single invocation: START_VM is left at its default,
\* it does not enter the creation parameters
ParamEnvs == EnvsWith({TRUE})

\* the environment before lines 128-167 have read it
NoEnv == [iso_raw |-> <<>>, disable_cloudinit |-> TRUE, cloudinit |-> TRUE,
          cipassword |-> None, ipconfig0 |-> <<>>, boot |-> None,
          gpu_pci |-> None, pool |-> None, tags |-> None, start_vm |-> TRUE]

\* the environments of the invocations of a sequence of runs: START_VM varies,
\* the rest is unset
RunEnvs == {[NoEnv EXCEPT !.start_vm = b] : b \in BOOLEAN}

\* the environment of lines 40-50: PROXMOX_HOST, PROXMOX_TOKEN_NAME,
\* PROXMOX_TOKEN_VALUE, PROXMOX_USER, PROXMOX_PASSWORD, PROXMOX_PASS
Credentials ==
    [host : {None, "pve.lan"},
     token_name : {None, "", "root@pam!ci"},
     token_value : {None, "s3cr3t"},
     user : {None, "root@pam"},
     password : {None, "", "pw"},
     pass : {None, "pw2"}]

\* credentials of an invocation that got past line 64
TokenCredentials ==
    [host |-> "pve.lan", token_name |-> "root@pam!ci", token_value |-> "s3cr3t",
     user |-> None, password |-> None, pass |-> None]

\* the credentials of a sequence of invocations: a token, a username and
\* password, neither
RunCredentials ==
    {TokenCredentials,
     [TokenCredentials EXCEPT !.token_name = None, !.token_value = None,
                              !.user = "root@pam", !.pass = "pw2"],
     [TokenCredentials EXCEPT !.token_value = None]}

\* no ProxmoxAPI(...) call made
NoConn == [mode |-> "none", ok |-> FALSE]

(***************************************************************************)
(* Connection, create_vm.py lines 40-64                                    *)
(***************************************************************************)
\* getenv("PROXMOX_PASSWORD", getenv("PROXMOX_PASS"))
PasswordOf(c) == IF c.password # None THEN c.password ELSE c.pass

\* ConnectMode that tries username and password before the token
ConnectMode_PasswordFirst(c) ==
    IF Truthy(c.user) /\ Truthy(PasswordOf(c)) THEN "password"
    ELSE IF Truthy(c.token_name) /\ Truthy(c.token_value) THEN "token"
    ELSE "none"

\* lines 55-61: the keyword arguments ProxmoxAPI is called with, "none" when
\* line 60 ends the run
ConnectMode(c) ==
    IF Truthy(c.token_name) /\ Truthy(c.token_value) THEN "token"
    ELSE IF ~Truthy(c.user) \/ ~Truthy(PasswordOf(c)) THEN "none"
    ELSE "password"

(***************************************************************************)
(* Storage resolution, create_vm.py lines 102-126                          *)
(***************************************************************************)
\* `cls in content` for a content string given as its classes
HasClass(content, cls) == \E i \in DOMAIN content : content[i] = cls

\* 'images' in content or 'rootdir' in content
SupportsImages(content) == HasClass(content, "images") \/ HasClass(content, "rootdir")

\* keys of storage_map in insertion order (a dict keeps the first position of a key)
RECURSIVE MapKeys(_)
MapKeys(l) ==
    IF l = <<>> THEN <<>>
    ELSE LET front == MapKeys(SubSeq(l, 1, Len(l) - 1))
             k == l[Len(l)].storage
         IN  IF \E i \in DOMAIN front : front[i] = k THEN front ELSE Append(front, k)

\* 'k in storage_map'
InMap(l, k) == \E i \in DOMAIN l : l[i].storage = k

\* storage_map.get(k): the content of the last entry named k; a missing key
\* gives None, which every use treats like the empty string
MapGet(l, k) ==
    IF InMap(l, k)
    THEN l[CHOOSE i \in DOMAIN l : l[i].storage = k /\ \A j \in DOMAIN l : l[j].storage = k => j <= i].content
    ELSE <<>>

\* the loop of lines 114-117 over keys[i..]: its loop variable is `name`, the
\* variable that holds the VM name; the loop leaves it at the key where it broke
\* or at the last key
RECURSIVE ScanFallback(_, _, _, _)
ScanFallback(l, keys, i, nm) ==
    IF i > Len(keys) THEN [fallback |-> None, name |-> nm]
    ELSE IF SupportsImages(MapGet(l, keys[i])) THEN [fallback |-> keys[i], name |-> keys[i]]
    ELSE ScanFallback(l, keys, i + 1, keys[i])

\* FindFallback without the preference for local-lvm
FindFallback_NoPreference(l, nm) == ScanFallback(l, MapKeys(l), 1, nm)

\* lines 110-117
FindFallback(l, nm) ==
    IF InMap(l, "local-lvm") /\ SupportsImages(MapGet(l, "local-lvm"))
    THEN [fallback |-> "local-lvm", name |-> nm]
    ELSE ScanFallback(l, MapKeys(l), 1, nm)

\* lines 106-123 on the listing l: the storage and name after them, and whether
\* line 123 ended the run
ResolveStorage(l, st, nm) ==
    LET sel_content == MapGet(l, st)
    IN  IF sel_content = <<>> \/ ~SupportsImages(sel_content)
        THEN LET f == FindFallback(l, nm)
             IN  IF Truthy(f.fallback)
                 THEN [storage |-> f.fallback, name |-> f.name, fatal |-> FALSE]
                 ELSE [storage |-> st, name |-> f.name, fatal |-> TRUE]
        ELSE [storage |-> st, name |-> nm, fatal |-> FALSE]

(***************************************************************************)
(* Creation parameters, create_vm.py lines 128-237                         *)
(***************************************************************************)
\* lines 138-145
IsoOf(e) ==
    IF e.iso_raw = <<>> THEN <<>>
    ELSE IF \E i \in DOMAIN e.iso_raw : e.iso_raw[i] = ":" THEN e.iso_raw
    ELSE <<"local", ":", "iso/">> \o e.iso_raw

\* lines 149-151
UseCloudinit(e) == IF e.disable_cloudinit THEN FALSE ELSE e.cloudinit

\* MachineParams that leaves the machine type alone when an installer image boots
MachineParams_UnlessIso(e) ==
    IF Truthy(e.gpu_pci) /\ e.iso_raw = <<>> THEN [machine |-> "q35"] ELSE EmptyMap

\* lines 168, 188-189
MachineParams(e) == IF Truthy(e.gpu_pci) THEN [machine |-> "q35"] ELSE EmptyMap

\* lines 171-185
BaseParams(id, nm) ==
    [vmid |-> id, name |-> nm, cores |-> Cores, sockets |-> Sockets,
     memory |-> Memory, balloon |-> Balloon, ostype |-> "l26",
     scsihw |-> "virtio-scsi-pci", net0 |-> <<"virtio", ",bridge=", "vmbr0">>,
     agent |-> 1, onboot |-> 1]

\* line 192
DiskParams(st) == [scsi0 |-> <<st, ":", DiskSize>>]

\* lines 209-217
CloudinitFields(e) ==
    [ciuser |-> "root"]
    @@ (IF Truthy(e.cipassword) THEN [cipassword |-> e.cipassword] ELSE EmptyMap)
    @@ (IF e.ipconfig0 # <<>>
        THEN IF \E i \in DOMAIN e.ipconfig0 : e.ipconfig0[i] \in {"ip=", "dhcp"}
             THEN [ipconfig0 |-> e.ipconfig0]
             ELSE [ipconfig0 |-> <<"ip=">> \o e.ipconfig0]
        ELSE EmptyMap)

\* CloudinitDisk on the requested storage instead of the selected one
CloudinitDisk_Requested(st) == [ide2 |-> <<cfg.storage, ":", "cloudinit">>]

\* line 206
CloudinitDisk(st) == [ide2 |-> <<st, ":", "cloudinit">>]

\* BootParams that keeps the cloud-init fields next to an installer image
BootParams_KeepCloudinit(e, st) ==
    IF IsoOf(e) # <<>>
    THEN [ide2 |-> IsoOf(e) \o <<",media=cdrom">>]
         @@ (IF e.boot = None
             THEN [boot |-> "order=scsi0;ide2", bootdisk |-> "scsi0"]
             ELSE [boot |-> e.boot])
         @@ (IF UseCloudinit(e) THEN CloudinitFields(e) ELSE EmptyMap)
    ELSE (IF UseCloudinit(e)
          THEN CloudinitDisk(st) @@ CloudinitFields(e)
          ELSE EmptyMap)
         @@ (IF e.boot = None
             THEN [boot |-> "order=scsi0", bootdisk |-> "scsi0"]
             ELSE EmptyMap)

\* lines 195-221
BootParams(e, st) ==
    IF IsoOf(e) # <<>>
    THEN [ide2 |-> IsoOf(e) \o <<",media=cdrom">>]
         @@ (IF e.boot = None
             THEN [boot |-> "order=scsi0;ide2", bootdisk |-> "scsi0"]
             ELSE [boot |-> e.boot])
    ELSE (IF UseCloudinit(e)
          THEN CloudinitDisk(st) @@ CloudinitFields(e)
          ELSE EmptyMap)
         @@ (IF e.boot = None
             THEN [boot |-> "order=scsi0", bootdisk |-> "scsi0"]
             ELSE EmptyMap)

\* lines 223-226
PoolTagParams(e) ==
    (IF Truthy(e.pool) THEN [pool |-> e.pool] ELSE EmptyMap)
    @@ (IF Truthy(e.tags) THEN [tags |-> e.tags] ELSE EmptyMap)

\* lines 230-236
GpuParams(e) ==
    IF Truthy(e.gpu_pci)
    THEN [hostpci0 |-> <<e.gpu_pci, ",pcie=1", ",x-vga=0">>]
    ELSE EmptyMap

\* the params dict handed to qemu.post at line 242
BuildCreateParams(e, id, nm, st) ==
    BaseParams(id, nm) @@ MachineParams(e) @@ DiskParams(st) @@ BootParams(e, st)
    @@ PoolTagParams(e) @@ GpuParams(e)

(***************************************************************************)
(* Strings whose characters the code inspects, as sequences of tokens      *)
(***************************************************************************)
\* s.startswith(p)
StartsWith(s, p) == Len(s) >= Len(p) /\ SubSeq(s, 1, Len(p)) = p

\* c in s
Contains(s, c) == \E i \in DOMAIN s : s[i] = c

\* s.lower()
LowerChar(c) == CASE c = "I" -> "i" [] c = "P" -> "p" [] c = "V" -> "v" [] OTHER -> c
Lower(s) == [i \in DOMAIN s |-> LowerChar(s[i])]

\* s.strip()
RECURSIVE LStrip(_)
LStrip(s) == IF s # <<>> /\ s[1] = " " THEN LStrip(Tail(s)) ELSE s
RECURSIVE RStrip(_)
RStrip(s) == IF s # <<>> /\ s[Len(s)] = " " THEN RStrip(SubSeq(s, 1, Len(s) - 1)) ELSE s
Strip(s) == RStrip(LStrip(s))

(***************************************************************************)
(* The hypervisor                                                          *)
(***************************************************************************)
UsedIds == {vms[i].vmid : i \in DOMAIN vms}

\* answer of cluster.nextid.get(): the lowest free id
NextId == CHOOSE n \in FirstId..(FirstId + Len(vms)) :
              n \notin UsedIds /\ \A m \in FirstId..(n - 1) : m \in UsedIds

\* indices of the VMs named nm, in listing order
Named(nm) == {i \in DOMAIN vms : vms[i].name = nm}

Min(S) == CHOOSE x \in S : \A y \in S : x <= y

(***************************************************************************)
(* create_vm.py main(), one action per remote call or block of local code  *)
(***************************************************************************)
Call(op, ok) == calls' = Append(calls, <<op, ok>>) /\ faulty' = (faulty \/ ~ok)

Issued(op) == \E i \in DOMAIN calls : calls[i][1] = op
Did(op, ok) == \E i \in DOMAIN calls : calls[i] = <<op, ok>>
LastCallIs(op, ok) == calls # <<>> /\ calls[Len(calls)] = <<op, ok>>

\* the place at which a run that ended with a non-zero status ended: lines 43
\* and 60 ("configuration"), 64, 89, 123, 246, 259
FailureKind ==
    IF conn.mode = "none" THEN "configuration"
    ELSE IF ~conn.ok THEN "connection"
    ELSE IF Did("nextid.get", FALSE) THEN "nextid"
    ELSE IF Did("qemu.post", FALSE) THEN "creation"
    ELSE IF Did("start.post", FALSE) THEN "start"
    ELSE "storage"

\* print(...) of a line that carries a VM id
PrintId(text, id) ==
    /\ stdout' = Append(stdout, [text |-> text, id |-> id])
    /\ reports' = Append(reports, id)

\* sys.exit(code), or falling off the end of main() with code 0
Exit(code) == exit' = code /\ pc' = "done"

\* lines 40-64
Connect ==
    /\ pc = "connect"
    /\ IF ~Truthy(creds.host) \/ ConnectMode(creds) = "none"
       THEN Exit(1) /\ UNCHANGED conn
       ELSE \E ok \in BOOLEAN :
               /\ conn' = [mode |-> ConnectMode(creds), ok |-> ok]
               /\ IF ok THEN pc' = "check" /\ UNCHANGED exit ELSE Exit(1)
    /\ UNCHANGED <<cfg, vms, run, name, vmid, storage, storages, env, params,
                   calls, stdout, created, reports, faulty, creds, ended>>
    /\ UNCHANGED <<pollVars, parseVars, mainVars, imageVars>>

\* CheckExisting that ends the run when the listing raises
CheckExisting_Abort ==
    /\ pc = "check"
    /\ \/ /\ Named(name) # {}
          /\ Call("qemu.get", TRUE)
          /\ PrintId("Existing VM", vms[Min(Named(name))].vmid)
          /\ Exit(0)
       \/ /\ Named(name) = {}
          /\ Call("qemu.get", TRUE)
          /\ pc' = "alloc"
          /\ UNCHANGED <<stdout, reports, exit>>
       \/ /\ Call("qemu.get", FALSE)
          /\ Exit(1)
          /\ UNCHANGED <<stdout, reports>>
    /\ UNCHANGED <<cfg, vms, run, name, vmid, storage, storages, env, params, created>>
    /\ UNCHANGED <<creds, conn, ended>>
    /\ UNCHANGED <<pollVars, parseVars, mainVars, imageVars>>

\* CheckExisting that reports the VM it found and goes on to create another
CheckExisting_Continue ==
    /\ pc = "check"
    /\ \/ /\ Named(name) # {}
          /\ Call("qemu.get", TRUE)
          /\ PrintId("Existing VM", vms[Min(Named(name))].vmid)
          /\ pc' = "alloc"
          /\ UNCHANGED exit
       \/ /\ Named(name) = {}
          /\ Call("qemu.get", TRUE)
          /\ pc' = "alloc"
          /\ UNCHANGED <<stdout, reports, exit>>
       \/ /\ Call("qemu.get", FALSE)
          /\ pc' = "alloc"
          /\ UNCHANGED <<stdout, reports, exit>>
    /\ UNCHANGED <<cfg, vms, run, name, vmid, storage, storages, env, params, created>>
    /\ UNCHANGED <<creds, conn, ended>>
    /\ UNCHANGED <<pollVars, parseVars, mainVars, imageVars>>

\* lines 71-81: the scan for a VM with the requested name
CheckExisting ==
    /\ pc = "check"
    /\ \/ /\ Named(name) # {}
          /\ Call("qemu.get", TRUE)
          /\ PrintId("Existing VM", vms[Min(Named(name))].vmid)
          /\ Exit(0)
       \/ /\ Named(name) = {}
          /\ Call("qemu.get", TRUE)
          /\ pc' = "alloc"
          /\ UNCHANGED <<stdout, reports, exit>>
       \/ /\ Call("qemu.get", FALSE)
          /\ pc' = "alloc"
          /\ UNCHANGED <<stdout, reports, exit>>
    /\ UNCHANGED <<cfg, vms, run, name, vmid, storage, storages, env, params, created>>
    /\ UNCHANGED <<creds, conn, ended>>
    /\ UNCHANGED <<pollVars, parseVars, mainVars, imageVars>>

\* AllocateId that goes on with the first id when the next-id request raises
AllocateId_Continue ==
    /\ pc = "alloc"
    /\ \/ /\ vmid # NoVmid
          /\ pc' = "storage"
          /\ UNCHANGED <<vmid, calls, faulty, exit>>
       \/ /\ vmid = NoVmid
          /\ \E ok \in BOOLEAN : Call("nextid.get", ok)
          /\ vmid' = NextId
          /\ pc' = "storage"
          /\ UNCHANGED exit
    /\ UNCHANGED <<cfg, vms, run, name, storage, storages, env, params, stdout, created, reports>>
    /\ UNCHANGED <<creds, conn, ended>>
    /\ UNCHANGED <<pollVars, parseVars, mainVars, imageVars>>

\* lines 83-89
AllocateId ==
    /\ pc = "alloc"
    /\ \/ /\ vmid # NoVmid
          /\ pc' = "storage"
          /\ UNCHANGED <<vmid, calls, faulty, exit>>
       \/ /\ vmid = NoVmid
          /\ Call("nextid.get", TRUE)
          /\ vmid' = NextId
          /\ pc' = "storage"
          /\ UNCHANGED exit
       \/ /\ vmid = NoVmid
          /\ Call("nextid.get", FALSE)
          /\ Exit(1)
          /\ UNCHANGED vmid
    /\ UNCHANGED <<cfg, vms, run, name, storage, storages, env, params, stdout, created, reports>>
    /\ UNCHANGED <<creds, conn, ended>>
    /\ UNCHANGED <<pollVars, parseVars, mainVars, imageVars>>

\* lines 103-104, 124-126: the storage listing, or the exception that skips
\* the resolution
GetStorages ==
    /\ pc = "storage"
    /\ \/ /\ Call("storage.get", TRUE)
          /\ \E l \in Listings : storages' = l
          /\ pc' = "resolve"
       \/ /\ Call("storage.get", FALSE)
          /\ pc' = "build"
          /\ UNCHANGED storages
    /\ UNCHANGED <<cfg, vms, run, name, vmid, storage, env, params, stdout, exit, created, reports>>
    /\ UNCHANGED <<creds, conn, ended>>
    /\ UNCHANGED <<pollVars, parseVars, mainVars, imageVars>>

\* lines 106-123
SelectStorage ==
    /\ pc = "resolve"
    /\ LET r == ResolveStorage(storages, storage, name)
       IN  /\ name' = r.name
           /\ storage' = r.storage
           /\ IF r.fatal THEN Exit(1) ELSE pc' = "build" /\ UNCHANGED exit
    /\ UNCHANGED <<cfg, vms, run, vmid, storages, env, params, calls, stdout, created, reports, faulty>>
    /\ UNCHANGED <<creds, conn, ended>>
    /\ UNCHANGED <<pollVars, parseVars, mainVars, imageVars>>

\* lines 128-239 with the environment drawn from E; storage_map is not read
\* after line 123
BuildParamsFrom(E) ==
    /\ pc = "build"
    /\ \E e \in E :
          /\ env' = e
          /\ params' = BuildCreateParams(e, vmid, name, storage)
    /\ storages' = <<>>
    /\ pc' = "create"
    /\ UNCHANGED <<cfg, vms, run, name, vmid, storage, calls, stdout, exit, created, reports, faulty>>
    /\ UNCHANGED <<creds, conn, ended>>
    /\ UNCHANGED <<pollVars, parseVars, mainVars, imageVars>>

\* lines 128-239 in a sequence of invocations
BuildParams == BuildParamsFrom(RunEnvs)

\* lines 128-239 in a single invocation, over every environment
BuildParamsAnyEnv == BuildParamsFrom(ParamEnvs)

\* lines 241-246: the hypervisor rejects an id that is in use, and any call may fail
CreateVm ==
    /\ pc = "create"
    /\ \/ /\ params.vmid \notin UsedIds
          /\ Call("qemu.post", TRUE)
          /\ created' = Append(created, [vmid |-> params.vmid, name |-> params.name, ok |-> TRUE])
          /\ vms' = Append(vms, [vmid |-> params.vmid, name |-> params.name])
          /\ pc' = "start"
          /\ UNCHANGED exit
       \/ /\ Call("qemu.post", FALSE)
          /\ created' = Append(created, [vmid |-> params.vmid, name |-> params.name, ok |-> FALSE])
          /\ Exit(1)
          /\ UNCHANGED vms
    /\ UNCHANGED <<cfg, run, name, vmid, storage, storages, env, params, stdout, reports>>
    /\ UNCHANGED <<creds, conn, ended>>
    /\ UNCHANGED <<pollVars, parseVars, mainVars, imageVars>>

\* StartVm that deletes the VM again when the start call raises
StartVm_Rollback ==
    /\ pc = "start"
    /\ \/ /\ env.start_vm
          /\ Call("start.post", TRUE)
          /\ PrintId("Starting VM", vmid)
          /\ Exit(0)
          /\ UNCHANGED vms
       \/ /\ env.start_vm
          /\ calls' = calls \o << <<"start.post", FALSE>>, <<"qemu.delete", TRUE>> >>
          /\ faulty' = TRUE
          /\ vms' = SelectSeq(vms, LAMBDA v : v.vmid # vmid)
          /\ PrintId("", vmid)
          /\ Exit(1)
       \/ /\ ~env.start_vm
          /\ PrintId("", vmid)
          /\ Exit(0)
          /\ UNCHANGED <<calls, faulty, vms>>
    /\ UNCHANGED <<cfg, run, name, vmid, storage, storages, env, params, created>>
    /\ UNCHANGED <<creds, conn, ended>>
    /\ UNCHANGED <<pollVars, parseVars, mainVars, imageVars>>

\* lines 248-261
StartVm ==
    /\ pc = "start"
    /\ \/ /\ env.start_vm
          /\ Call("start.post", TRUE)
          /\ PrintId("Starting VM", vmid)
          /\ Exit(0)
       \/ /\ env.start_vm
          /\ Call("start.post", FALSE)
          /\ PrintId("", vmid)
          /\ Exit(1)
       \/ /\ ~env.start_vm
          /\ PrintId("", vmid)
          /\ Exit(0)
          /\ UNCHANGED <<calls, faulty>>
    /\ UNCHANGED <<cfg, vms, run, name, vmid, storage, storages, env, params, created>>
    /\ UNCHANGED <<creds, conn, ended>>
    /\ UNCHANGED <<pollVars, parseVars, mainVars, imageVars>>

\* the next invocation of the script with the same environment, from line 40
\* (start = "connect") or from line 66 on with the connection made
NextRunFrom(start) ==
    /\ pc = "done"
    /\ run < MaxRuns
    /\ run' = run + 1
    /\ pc' = start
    /\ conn' = IF start = "connect" THEN NoConn ELSE conn
    /\ ended' = IF exit # 0 THEN ended \cup {<<FailureKind, exit>>} ELSE ended
    /\ name' = cfg.name
    /\ vmid' = cfg.vmid
    /\ storage' = cfg.storage
    /\ storages' = <<>>
    /\ env' = NoEnv
    /\ params' = EmptyMap
    /\ calls' = <<>>
    /\ stdout' = <<>>
    /\ exit' = Running
    /\ UNCHANGED <<cfg, vms, created, reports, faulty, creds>>
    /\ UNCHANGED <<pollVars, parseVars, mainVars, imageVars>>

\* the next invocation, over a connection that is made
NextRun == NextRunFrom("check")

\* the next invocation, from its first line
NextRunConnect == NextRunFrom("connect")

(***************************************************************************)
(* poll_for_ip.py: inputs                                                  *)
(***************************************************************************)
\* addresses, one token per number or separator
LinkLocal == <<"169", ".", "254", ".", "1", ".", "1">>
Routable == <<"192", ".", "168", ".", "1", ".", "50">>
Loopback == <<"127", ".", "0", ".", "0", ".", "1">>
Private == <<"10", ".", "0", ".", "0", ".", "5">>
V6Link == <<"fe80", "::", "1">>
V6Mapped == <<"::", "ffff", ":", "10", ".", "0", ".", "0", ".", "1">>
\* type labels, one token per character
LabelV4 == <<"i", "p", "v", "4">>
LabelV4Caps == <<"I", "P", "v", "4">>
LabelV6 == <<"i", "p", "v", "6">>
NoLabel == <<>>

\* no address: Python None as a return value, a missing or empty address field
NoIp == <<>>

\* address entries of an interface: the address and the type label, under
\* whichever of the accepted keys carries them
AddrEntries ==
    {[ip |-> LinkLocal, type |-> LabelV4],
     [ip |-> Routable, type |-> LabelV4],
     [ip |-> Loopback, type |-> LabelV4],
     [ip |-> V6Link, type |-> LabelV6],
     [ip |-> V6Mapped, type |-> LabelV6],
     [ip |-> Private, type |-> NoLabel],
     [ip |-> Private, type |-> LabelV4Caps],
     [ip |-> NoIp, type |-> LabelV4]}

EntrySeqs == UNION {[1..n -> AddrEntries] : n \in 0..MaxAddrs}

\* the entries es cut into interfaces after the positions of C
RECURSIVE Split(_, _, _)
Split(es, C, start) ==
    IF start > Len(es) THEN <<>>
    ELSE LET stop == IF \E c \in C : c >= start /\ c < Len(es)
                     THEN Min({c \in C : c >= start /\ c < Len(es)})
                     ELSE Len(es)
         IN  <<[entries |-> SubSeq(es, start, stop)]>> \o Split(es, C, stop + 1)

\* what _get_agent_network hands to _parse_interfaces_for_ipv4: None or an
\* empty container ("none"), a dict with an 'interfaces' key ("wrapper"), a
\* list of interfaces ("list"), a single interface dict ("single")
NoneBody == [shape |-> "none", interfaces |-> <<>>]
Snapshots ==
    {NoneBody, [shape |-> "wrapper", interfaces |-> <<>>]}
    \cup {[shape |-> "single", interfaces |-> <<[entries |-> es]>>] : es \in EntrySeqs}
    \cup {[shape |-> sh, interfaces |-> Split(es, C, 1)] :
             sh \in {"list", "wrapper"}, es \in EntrySeqs \ {<<>>},
             C \in SUBSET (1..(MaxAddrs - 1))}

\* a list whose elements are no dicts: iface.get raises
MalformedBody == [shape |-> "malformed", interfaces |-> <<>>]

\* answers of the guest agent to one attempt: whether GET and, after a failed
\* GET, POST return, and the payload of the call that returned
AgentAnswers ==
    {[getOk |-> FALSE, postOk |-> FALSE, body |-> NoneBody],
     [getOk |-> FALSE, postOk |-> TRUE,
      body |-> [shape |-> "list", interfaces |-> <<[entries |-> <<[ip |-> Routable, type |-> LabelV4]>>]>>]],
     [getOk |-> TRUE, postOk |-> FALSE, body |-> NoneBody],
     [getOk |-> TRUE, postOk |-> FALSE,
      body |-> [shape |-> "list",
                interfaces |-> <<[entries |-> <<[ip |-> Loopback, type |-> LabelV4]>>],
                                 [entries |-> <<[ip |-> V6Link, type |-> LabelV6]>>]>>]],
     [getOk |-> TRUE, postOk |-> FALSE,
      body |-> [shape |-> "wrapper",
                interfaces |-> <<[entries |-> <<[ip |-> LinkLocal, type |-> LabelV4],
                                                [ip |-> Routable, type |-> LabelV4]>>]>>]],
     [getOk |-> TRUE, postOk |-> FALSE, body |-> MalformedBody]}

(***************************************************************************)
(* poll_for_ip.py: _get_agent_network, _parse_interfaces_for_ipv4          *)
(***************************************************************************)
\* lines 34-46: None when GET and POST both raise, else the payload without
\* its 'result' wrapper
GetAgentNetwork(a) == IF ~a.getOk /\ ~a.postOk THEN NoneBody ELSE a.body

\* ip_str.startswith('169.254') or ip_str.startswith('127.0')
Rejected(ip_str) ==
    StartsWith(ip_str, <<"169", ".", "254">>) \/ StartsWith(ip_str, <<"127", ".", "0">>)

\* lines 67-76: the entry makes the function return
Accepts(e) ==
    /\ e.ip # NoIp
    /\ \/ StartsWith(Lower(e.type), LabelV4) /\ ~Rejected(e.ip)
       \/ Contains(e.ip, ".") /\ ~Rejected(e.ip)

\* lines 65-76 from entry i of one interface on
RECURSIVE ScanEntries(_, _)
ScanEntries(es, i) ==
    IF i > Len(es) THEN NoIp
    ELSE IF Accepts(es[i]) THEN Strip(es[i].ip)
    ELSE ScanEntries(es, i + 1)

\* lines 62-77 from interface i on
RECURSIVE ScanInterfaces(_, _)
ScanInterfaces(candidates, i) ==
    IF i > Len(candidates) THEN NoIp
    ELSE LET found == ScanEntries(candidates[i].entries, 1)
         IN  IF found # NoIp THEN found ELSE ScanInterfaces(candidates, i + 1)

\* lines 49-77
ParseInterfacesForIpv4(ifaces) ==
    IF ifaces.shape = "none" THEN NoIp
    ELSE ScanInterfaces(ifaces.interfaces, 1)

\* iface.get on an element that is no dict
ParseRaises(ifaces) == ifaces.shape = "malformed"

(***************************************************************************)
(* poll_for_ip.py: fetch_guest_ip, lines 80-101                            *)
(***************************************************************************)
\* cap on the attempts of a loop in which neither a query nor a sleep takes a tick
MaxPolls == MaxTimeout + 1

\* lines 81-82
EnterPoll ==
    /\ ppc = "enter"
    /\ deadline' = now + timeout
    /\ poll' = 0
    /\ ppc' = "test"
    /\ UNCHANGED <<timeout, interval, now, ip, answers>>
    /\ UNCHANGED <<provVars, parseVars, mainVars, imageVars>>

\* TestDeadline of a loop without a deadline (`while True`)
TestDeadline_NoDeadline ==
    /\ ppc = "test"
    /\ poll < MaxPolls
    /\ poll' = poll + 1
    /\ ppc' = "query"
    /\ UNCHANGED ip
    /\ UNCHANGED <<timeout, interval, now, deadline, answers>>
    /\ UNCHANGED <<provVars, parseVars, mainVars, imageVars>>

\* lines 83-84 and 101
TestDeadline ==
    /\ ppc = "test"
    /\ IF now < deadline
       THEN /\ poll < MaxPolls
            /\ poll' = poll + 1
            /\ ppc' = "query"
            /\ UNCHANGED ip
       ELSE /\ ip' = NoIp
            /\ ppc' = "returned"
            /\ UNCHANGED poll
    /\ UNCHANGED <<timeout, interval, now, deadline, answers>>
    /\ UNCHANGED <<provVars, parseVars, mainVars, imageVars>>

\* QueryAgent that gives up when GET and POST both raise
QueryAgent_AbortOnError ==
    /\ ppc = "query"
    /\ \E a \in AgentAnswers, rtt \in 0..MaxRtt :
          /\ now' = now + rtt
          /\ answers' = Append(answers, a)
          /\ LET ifaces == GetAgentNetwork(a)
             IN  IF ~a.getOk /\ ~a.postOk
                 THEN ip' = NoIp /\ ppc' = "returned"
                 ELSE IF ~ParseRaises(ifaces) /\ ParseInterfacesForIpv4(ifaces) # NoIp
                 THEN ip' = ParseInterfacesForIpv4(ifaces) /\ ppc' = "returned"
                 ELSE ppc' = "sleep" /\ UNCHANGED ip
    /\ UNCHANGED <<timeout, interval, deadline, poll>>
    /\ UNCHANGED <<provVars, parseVars, mainVars, imageVars>>

\* lines 85-99: one attempt; an exception of the parse is swallowed
QueryAgent ==
    /\ ppc = "query"
    /\ \E a \in AgentAnswers, rtt \in 0..MaxRtt :
          /\ now' = now + rtt
          /\ answers' = Append(answers, a)
          /\ LET ifaces == GetAgentNetwork(a)
             IN  IF ~ParseRaises(ifaces) /\ ParseInterfacesForIpv4(ifaces) # NoIp
                 THEN ip' = ParseInterfacesForIpv4(ifaces) /\ ppc' = "returned"
                 ELSE ppc' = "sleep" /\ UNCHANGED ip
    /\ UNCHANGED <<timeout, interval, deadline, poll>>
    /\ UNCHANGED <<provVars, parseVars, mainVars, imageVars>>

\* an attempt during which the clock advances: the query of lines 85-99 and the
\* sleep of line 100 after it together take at least one tick
QueryAgentTimed == QueryAgent /\ ((ppc' = "sleep" /\ interval = 0) => now' > now)

\* line 100
SleepInterval ==
    /\ ppc = "sleep"
    /\ now' = now + interval
    /\ ppc' = "test"
    /\ UNCHANGED <<timeout, interval, deadline, poll, ip, answers>>
    /\ UNCHANGED <<provVars, parseVars, mainVars, imageVars>>

\* a call of _parse_interfaces_for_ipv4 on the snapshot
ParseSnapshot ==
    /\ ~parsed.done
    /\ parsed' = [done |-> TRUE, ip |-> ParseInterfacesForIpv4(snapshot)]
    /\ UNCHANGED snapshot
    /\ UNCHANGED <<provVars, pollVars, mainVars, imageVars>>

\* no call of fetch_guest_ip
PollIdle ==
    /\ timeout = 0 /\ interval = 0 /\ now = 0 /\ deadline = 0 /\ poll = 0
    /\ ppc = "idle" /\ ip = NoIp /\ answers = <<>>

\* no call of _parse_interfaces_for_ipv4
ParseIdle == snapshot = NoneBody /\ parsed = [done |-> TRUE, ip |-> NoIp]

(***************************************************************************)
(* poll_for_ip.py: module body and main(), lines 6-31 and 104-138          *)
(***************************************************************************)
\* the strings of the environment that int() converts
IsInt(s) == s \in {"0", "1", "2", "3", "105", "106"}
IntOf(s) ==
    CASE s = "0" -> 0 [] s = "1" -> 1 [] s = "2" -> 2 [] s = "3" -> 3
      [] s = "105" -> 105 [] s = "106" -> 106

\* int(os.environ.get(key, default)) with ValueError giving the default
IntOrDefault(s, d) == IF s = None THEN d ELSE IF IsInt(s) THEN IntOf(s) ELSE d

\* the defaults of lines 109-115, 600 s and 60 s, in ticks of 60 s
DefaultTimeout == 10
DefaultInterval == 1

\* whether proxmoxer can be imported, and VM_ID, VMID, PROXMOX_NODE,
\* PROXMOX_HOST, PROXMOX_USER, PROXMOX_PASSWORD, POLL_TIMEOUT, POLL_INTERVAL
PollEnvs ==
    [proxmoxer : BOOLEAN,
     vm_id : {None, "abc", "105"},
     vmid : {None, "106"},
     node : {None, "pve"},
     host : {None, "pve.lan"},
     user : {None, "root@pam"},
     password : {None, "pw"},
     poll_timeout : {None, "abc", "0", "2"},
     poll_interval : {None, "2"}]

NoPollEnv ==
    [proxmoxer |-> TRUE, vm_id |-> None, vmid |-> None, node |-> None,
     host |-> None, user |-> None, password |-> None,
     poll_timeout |-> None, poll_interval |-> None]

\* sys.exit(code) of poll_for_ip.py
PollExit(code, how) == pexit' = code /\ outcome' = how /\ mpc' = "done"

\* lines 6-10
ImportProxmoxer ==
    /\ mpc = "import"
    /\ IF penv.proxmoxer
       THEN mpc' = "config" /\ UNCHANGED <<pexit, outcome>>
       ELSE PollExit(10, "missing-dependency")
    /\ UNCHANGED <<penv, pout>>
    /\ UNCHANGED <<provVars, pollVars, parseVars, imageVars>>

\* lines 106-128
ReadConfig ==
    /\ mpc = "config"
    /\ timeout' = IntOrDefault(penv.poll_timeout, DefaultTimeout)
    /\ interval' = IntOrDefault(penv.poll_interval, DefaultInterval)
    /\ LET vmid_env == IF Truthy(penv.vm_id) THEN penv.vm_id ELSE penv.vmid
       IN  IF ~Truthy(vmid_env) \/ ~IsInt(vmid_env) \/ ~Truthy(penv.node)
           THEN PollExit(3, "bad-configuration")
           ELSE mpc' = "connect" /\ UNCHANGED <<pexit, outcome>>
    /\ UNCHANGED <<penv, pout>>
    /\ UNCHANGED <<now, deadline, poll, ppc, ip, answers>>
    /\ UNCHANGED <<provVars, parseVars, imageVars>>

\* lines 17-31 and the call of fetch_guest_ip at line 131
ConnectProxmox ==
    /\ mpc = "connect"
    /\ IF ~(Truthy(penv.host) /\ Truthy(penv.user) /\ Truthy(penv.password))
       THEN PollExit(3, "bad-configuration") /\ UNCHANGED ppc
       ELSE \/ mpc' = "fetch" /\ ppc' = "enter" /\ UNCHANGED <<pexit, outcome>>
            \/ PollExit(4, "connection-failed") /\ UNCHANGED ppc
    /\ UNCHANGED <<penv, pout>>
    /\ UNCHANGED <<timeout, interval, now, deadline, poll, ip, answers>>
    /\ UNCHANGED <<provVars, parseVars, imageVars>>

\* ReportIp that ends with the status of a configuration error when no address
\* was found
ReportIp_NotFoundAsError ==
    /\ mpc = "fetch"
    /\ ppc = "returned"
    /\ IF ip # NoIp
       THEN pout' = Append(pout, ip) /\ PollExit(0, "found")
       ELSE pout' = pout /\ PollExit(3, "not-found")
    /\ UNCHANGED penv
    /\ UNCHANGED <<provVars, pollVars, parseVars, imageVars>>

\* lines 132-138: print('', end='') writes nothing
ReportIp ==
    /\ mpc = "fetch"
    /\ ppc = "returned"
    /\ IF ip # NoIp
       THEN pout' = Append(pout, ip) /\ PollExit(0, "found")
       ELSE pout' = pout /\ PollExit(2, "not-found")
    /\ UNCHANGED penv
    /\ UNCHANGED <<provVars, pollVars, parseVars, imageVars>>

(***************************************************************************)
(* evaluate_proxmox.py                                                     *)
(***************************************************************************)
MaxItems == 2

\* IMAGE, as tokens; unset or empty is <<>>
Images ==
    {<<"ubuntu">>, <<"ubuntu", ".iso">>, <<"local", ":", "iso/", "ubuntu", ".iso">>}

\* volume ids of a storage, as tokens
Volids ==
    {<<"local", ":", "iso/", "ubuntu", ".iso">>,
     <<"local", ":", "iso/", "ubuntu", "-old", ".iso">>,
     <<"local", ":", "iso/", "debian", ".iso">>,
     <<>>}

\* items of a content listing, with or without a 'volid' key
ContentItems ==
    {[has_volid |-> TRUE, volid |-> v] : v \in Volids}
    \cup {[has_volid |-> FALSE, volid |-> <<>>]}

ContentListings == UNION {[1..n -> ContentItems] : n \in 0..MaxItems}

\* the environment of lines 6-12
ImageEnvs ==
    [host : {None, "pve.lan"}, user : {None, "root@pam"}, password : {None, "pw"},
     node : {None, "pve"}, storage : {None, "local"}, image : {<<>>} \cup Images]

NoImageEnv ==
    [host |-> None, user |-> None, password |-> None, node |-> None,
     storage |-> None, image |-> <<>>]

\* `needle in hay` for two strings, from offset i on
RECURSIVE FindAt(_, _, _)
FindAt(needle, hay, i) ==
    IF i + Len(needle) - 1 > Len(hay) THEN FALSE
    ELSE IF SubSeq(hay, i, i + Len(needle) - 1) = needle THEN TRUE
    ELSE FindAt(needle, hay, i + 1)

\* StrIn that asks for the whole volume id
StrIn_Exact(needle, hay) == needle = hay

\* `needle in hay`
StrIn(needle, hay) == FindAt(needle, hay, 1)

\* the loop of lines 36-40 from item i on
RECURSIVE ScanContent(_, _, _)
ScanContent(items, img, i) ==
    IF i > Len(items) THEN FALSE
    ELSE IF items[i].has_volid /\ StrIn(img, items[i].volid) THEN TRUE
    ELSE ScanContent(items, img, i + 1)

\* sys.exit(code) of evaluate_proxmox.py, or the end of the module body
ImageExit(code, how) == iexit' = code /\ ioutcome' = how /\ ipc' = "done"

\* lines 6-17
ReadImageEnv ==
    /\ ipc = "env"
    /\ IF /\ Truthy(ienv.host) /\ Truthy(ienv.user) /\ Truthy(ienv.password)
          /\ Truthy(ienv.node) /\ Truthy(ienv.storage) /\ ienv.image # <<>>
       THEN ipc' = "connect" /\ UNCHANGED <<iexit, iout, ioutcome>>
       ELSE iout' = Append(iout, "Missing") /\ ImageExit(1, "missing-env")
    /\ UNCHANGED <<ienv, storage_content>>
    /\ UNCHANGED <<provVars, pollVars, parseVars, mainVars>>

\* lines 20-25: an exception of ProxmoxAPI(...) is not caught, the interpreter
\* ends with status 1
ConnectImage ==
    /\ ipc = "connect"
    /\ \/ ipc' = "list" /\ UNCHANGED <<iexit, ioutcome>>
       \/ ImageExit(1, "connection-failed")
    /\ UNCHANGED <<ienv, storage_content, iout>>
    /\ UNCHANGED <<provVars, pollVars, parseVars, mainVars>>

\* lines 28-32
ListContent ==
    /\ ipc = "list"
    /\ \/ /\ \E l \in ContentListings : storage_content' = l
          /\ ipc' = "scan"
          /\ UNCHANGED <<iexit, iout, ioutcome>>
       \/ /\ iout' = Append(iout, "Error accessing storage")
          /\ ImageExit(1, "listing-failed")
          /\ UNCHANGED storage_content
    /\ UNCHANGED ienv
    /\ UNCHANGED <<provVars, pollVars, parseVars, mainVars>>

\* lines 35-44
ScanImage ==
    /\ ipc = "scan"
    /\ IF ScanContent(storage_content, ienv.image, 1)
       THEN iout' = Append(iout, "found") /\ ImageExit(0, "found")
       ELSE iout' = Append(iout, "NOT found") /\ ImageExit(2, "not-found")
    /\ UNCHANGED <<ienv, storage_content>>
    /\ UNCHANGED <<provVars, pollVars, parseVars, mainVars>>

\* no invocation of poll_for_ip.py
MainIdle ==
    /\ penv = NoPollEnv /\ mpc = "idle" /\ pexit = Running /\ pout = <<>>
    /\ outcome = "none"

\* no invocation of evaluate_proxmox.py
ImageIdle ==
    /\ ienv = NoImageEnv /\ storage_content = <<>> /\ ipc = "idle" /\ iexit = Running
    /\ iout = <<>> /\ ioutcome = "none"

\* no invocation of create_vm.py
ProvIdle ==
    /\ cfg = [name |-> "web", vmid |-> NoVmid, storage |-> "local-lvm"]
    /\ vms = <<>> /\ run = 0 /\ pc = "idle"
    /\ name = cfg.name /\ vmid = cfg.vmid /\ storage = cfg.storage
    /\ storages = <<>> /\ env = NoEnv /\ params = EmptyMap
    /\ calls = <<>> /\ stdout = <<>> /\ exit = Running
    /\ created = <<>> /\ reports = <<>> /\ faulty = FALSE
    /\ creds = TokenCredentials /\ conn = NoConn /\ ended = {}

InitPoll ==
    /\ timeout \in 0..MaxTimeout
    /\ interval \in 0..MaxInterval
    /\ now = 0 /\ deadline = 0 /\ poll = 0
    /\ ppc = "enter" /\ ip = NoIp /\ answers = <<>>
    /\ ProvIdle
    /\ ParseIdle
    /\ MainIdle
    /\ ImageIdle

NextPoll ==
    \/ EnterPoll
    \/ TestDeadline
    \/ QueryAgent
    \/ SleepInterval

\* one call of fetch_guest_ip
SpecPoll == InitPoll /\ [][NextPoll]_vars

NextPollLive ==
    \/ EnterPoll
    \/ TestDeadline
    \/ QueryAgentTimed
    \/ SleepInterval

\* one call of fetch_guest_ip in which the clock advances and every query and
\* sleep completes
SpecPollLive ==
    /\ InitPoll
    /\ [][NextPollLive]_vars
    /\ WF_vars(EnterPoll)
    /\ WF_vars(TestDeadline)
    /\ WF_vars(QueryAgentTimed)
    /\ WF_vars(SleepInterval)

InitParse ==
    /\ snapshot \in Snapshots
    /\ parsed = [done |-> FALSE, ip |-> NoIp]
    /\ ProvIdle
    /\ PollIdle
    /\ MainIdle
    /\ ImageIdle

NextParse == ParseSnapshot

\* one call of _parse_interfaces_for_ipv4 on any snapshot
SpecParse == InitParse /\ [][NextParse]_vars

Init ==
    /\ cfg \in Configs
    /\ vms \in InitialVms
    /\ run = 1
    /\ pc = "check"
    /\ name = cfg.name
    /\ vmid = cfg.vmid
    /\ storage = cfg.storage
    /\ storages = <<>>
    /\ env = NoEnv
    /\ params = EmptyMap
    /\ calls = <<>>
    /\ stdout = <<>>
    /\ exit = Running
    /\ created = <<>>
    /\ reports = <<>>
    /\ faulty = FALSE
    /\ creds = TokenCredentials
    /\ conn = [mode |-> "token", ok |-> TRUE]
    /\ ended = {}
    /\ PollIdle
    /\ ParseIdle
    /\ MainIdle
    /\ ImageIdle

Next ==
    \/ CheckExisting
    \/ AllocateId
    \/ GetStorages
    \/ SelectStorage
    \/ BuildParams
    \/ CreateVm
    \/ StartVm
    \/ NextRun

\* any number of invocations, up to MaxRuns, with the same VM_NAME and VMID
Spec == Init /\ [][Next]_vars

NextSingle ==
    \/ CheckExisting
    \/ AllocateId
    \/ GetStorages
    \/ SelectStorage
    \/ BuildParamsAnyEnv
    \/ CreateVm
    \/ StartVm

InitSingle == Init /\ vms = <<>>

\* one invocation on a node without VMs, over every environment of ParamEnvs
SpecParams == InitSingle /\ [][NextSingle]_vars

InitMain ==
    /\ penv \in PollEnvs
    /\ mpc = "import" /\ pexit = Running /\ pout = <<>> /\ outcome = "none"
    /\ PollIdle
    /\ ProvIdle
    /\ ParseIdle
    /\ ImageIdle

NextMain ==
    \/ ImportProxmoxer
    \/ ReadConfig
    \/ ConnectProxmox
    \/ EnterPoll
    \/ TestDeadline
    \/ QueryAgent
    \/ SleepInterval
    \/ ReportIp

\* one invocation of poll_for_ip.py
SpecMain == InitMain /\ [][NextMain]_vars

InitImage ==
    /\ ienv \in ImageEnvs
    /\ storage_content = <<>> /\ ipc = "env" /\ iexit = Running /\ iout = <<>>
    /\ ioutcome = "none"
    /\ ProvIdle
    /\ PollIdle
    /\ ParseIdle
    /\ MainIdle

NextImage ==
    \/ ReadImageEnv
    \/ ConnectImage
    \/ ListContent
    \/ ScanImage

\* one invocation of evaluate_proxmox.py
SpecImage == InitImage /\ [][NextImage]_vars

\* an invocation from line 40 on, on a node without VMs, with one VM_NAME and
\* PROXMOX_STORAGE and no VMID
ConnectStart ==
    /\ cfg = [name |-> "web", vmid |-> NoVmid, storage |-> "nfs"]
    /\ vms = <<>>
    /\ run = 1
    /\ pc = "connect"
    /\ name = cfg.name
    /\ vmid = cfg.vmid
    /\ storage = cfg.storage
    /\ storages = <<>>
    /\ env = NoEnv
    /\ params = EmptyMap
    /\ calls = <<>>
    /\ stdout = <<>>
    /\ exit = Running
    /\ created = <<>>
    /\ reports = <<>>
    /\ faulty = FALSE
    /\ conn = NoConn
    /\ ended = {}
    /\ PollIdle
    /\ ParseIdle
    /\ MainIdle
    /\ ImageIdle

InitConnect == ConnectStart /\ creds \in Credentials

NextConnect ==
    \/ Connect
    \/ CheckExisting
    \/ AllocateId
    \/ GetStorages
    \/ SelectStorage
    \/ BuildParams
    \/ CreateVm
    \/ StartVm

\* one invocation from line 40 on, over every environment of Credentials
SpecConnect == InitConnect /\ [][NextConnect]_vars

InitFailures == ConnectStart /\ creds \in RunCredentials

NextFailures ==
    \/ NextConnect
    \/ NextRunConnect

\* any number of invocations from line 40 on, up to MaxRuns, with the same
\* environment
SpecFailures == InitFailures /\ [][NextFailures]_vars

(***************************************************************************)
(* Properties                                                              *)
(***************************************************************************)
\* the params dict has been built (line 171 onwards)
Built == "vmid" \in DOMAIN params

\* C1: over any sequence of invocations with the same VM_NAME and no VMID, in
\* which no remote call raises, the hypervisor accepts at most one creation
\* call, at most one VM carries the requested name, and all invocations print
\* the same VM id.
C1_Idempotent ==
    (cfg.vmid = NoVmid /\ ~faulty) =>
        /\ Cardinality({i \in DOMAIN created : created[i].ok}) <= 1
        /\ Cardinality(Named(cfg.name)) <= 1
        /\ \A i, j \in DOMAIN reports : reports[i] = reports[j]

\* the storage a listing l offers for a requested storage req, as C5 states it
Qualifies(l, k) ==
    \E i \in DOMAIN l : /\ l[i].storage = k
                        /\ \E c \in DOMAIN l[i].content : l[i].content[c] \in {"images", "rootdir"}
ExpectedStorage(l, req) ==
    IF Qualifies(l, req) THEN req
    ELSE IF Qualifies(l, "local-lvm") THEN "local-lvm"
    ELSE IF \E i \in DOMAIN l : Qualifies(l, l[i].storage)
         THEN l[Min({i \in DOMAIN l : Qualifies(l, l[i].storage)})].storage
         ELSE None

\* C5: after a successful storage listing the selected storage is the requested
\* one if it supports images or rootdir, else local-lvm if that qualifies, else
\* the first qualifying storage of the listing; with none the run fails and
\* issues no creation call. The primary disk is put on the selected storage.
C5_StorageSelection ==
    /\ (pc = "build" /\ LastCallIs("storage.get", TRUE)) =>
           /\ ExpectedStorage(storages, cfg.storage) # None
           /\ storage = ExpectedStorage(storages, cfg.storage)
    /\ (pc = "done" /\ LastCallIs("storage.get", TRUE)) =>
           /\ ExpectedStorage(storages, cfg.storage) = None
           /\ exit = 1
           /\ ~Issued("qemu.post")
    /\ Built => params.scsi0 = <<storage, ":", DiskSize>>

\* a listing in which local-lvm qualifies but comes after another qualifying storage
C5_Witness ==
    /\ pc = "build" /\ LastCallIs("storage.get", TRUE)
    /\ Len(storages) = 2
    /\ storages[1].storage = "tank" /\ Qualifies(storages, "tank")
    /\ storages[2].storage = "local-lvm"
    /\ cfg.storage = "nfs"
    /\ storage = "local-lvm"

IsSuffix(t, s) == Len(t) <= Len(s) /\ SubSeq(s, Len(s) - Len(t) + 1, Len(s)) = t

\* C6: with BOOT unset: an installer image is attached as CD-ROM on ide2 and the
\* boot order is scsi0 then ide2 with bootdisk scsi0; without an image and with
\* cloud-init enabled a cloud-init disk sits on the storage of the primary
\* disk and the boot order is scsi0; with neither the boot order is scsi0.
C6_BootResolution ==
    (Built /\ env.boot = None) =>
        /\ env.iso_raw # <<>> =>
              /\ params.ide2[Len(params.ide2)] = ",media=cdrom"
              /\ IsSuffix(env.iso_raw, SubSeq(params.ide2, 1, Len(params.ide2) - 1))
              /\ params.boot = "order=scsi0;ide2"
              /\ params.bootdisk = "scsi0"
        /\ (env.iso_raw = <<>> /\ ~env.disable_cloudinit /\ env.cloudinit) =>
              /\ params.ide2 = <<params.scsi0[1], ":", "cloudinit">>
              /\ params.scsi0[1] = storage
              /\ params.boot = "order=scsi0"
        /\ (env.iso_raw = <<>> /\ ~(~env.disable_cloudinit /\ env.cloudinit)) =>
              /\ "ide2" \notin DOMAIN params
              /\ params.boot = "order=scsi0"

\* a cloud-init disk that followed the primary disk to the fallback storage
C6_Witness ==
    /\ pc = "start"
    /\ env.boot = None /\ env.iso_raw = <<>>
    /\ ~env.disable_cloudinit /\ env.cloudinit
    /\ storage # cfg.storage
    /\ params.ide2[1] = storage

\* C7: when the creation call succeeded and the start call fails, no further
\* call (no delete, no rollback) is issued, the VM stays in the VM table, and
\* the run prints the VM id and exits non-zero.
C7_StartFailureSoft ==
    Did("start.post", FALSE) =>
        /\ LastCallIs("start.post", FALSE)
        /\ Did("qemu.post", TRUE)
        /\ \E i \in DOMAIN vms : vms[i] = [vmid |-> params.vmid, name |-> params.name]
        /\ pc = "done"
        /\ exit # 0 /\ exit # Running
        /\ stdout = <<[text |-> "", id |-> params.vmid]>>

C7_Witness ==
    /\ pc = "done" /\ LastCallIs("start.post", FALSE)
    /\ run = 2

\* C8: a failed next-id request ends the run with a failure status and neither
\* a creation nor a start call; a failed creation call ends the run with a
\* failure status and no start call.
C8_FatalFailures ==
    /\ Did("nextid.get", FALSE) =>
           /\ pc = "done" /\ exit # 0 /\ exit # Running
           /\ ~Issued("qemu.post") /\ ~Issued("start.post")
    /\ Did("qemu.post", FALSE) =>
           /\ pc = "done" /\ exit # 0 /\ exit # Running
           /\ ~Issued("start.post")

C8_Witness == pc = "done" /\ LastCallIs("nextid.get", FALSE) /\ cfg.vmid = NoVmid

\* C9 as stated: a run in which the VM listing or the storage listing failed
\* issues the creation call.
C9_AlwaysCreates ==
    (pc = "done" /\ (Did("qemu.get", FALSE) \/ Did("storage.get", FALSE))) =>
        Issued("qemu.post")

\* C9 amended: a failed VM listing leaves the run at id allocation with nothing
\* printed; a failed storage listing leaves the requested storage in place and
\* the run goes on to the creation call; after a failed VM listing the run ends
\* without a creation call only when the next-id request fails or no storage
\* qualifies.
C9_ListingFailuresAdvisory ==
    /\ LastCallIs("qemu.get", FALSE) =>
           /\ pc = "alloc" \/ (pc = "storage" /\ cfg.vmid # NoVmid)
           /\ exit = Running /\ stdout = <<>>
    /\ LastCallIs("storage.get", FALSE) =>
           /\ pc \in {"build", "create"}
           /\ exit = Running /\ storage = cfg.storage
    /\ (Did("storage.get", FALSE) /\ Built) => params.scsi0[1] = cfg.storage
    /\ (Did("storage.get", FALSE) /\ pc = "done") => Issued("qemu.post")
    /\ (Did("qemu.get", FALSE) /\ pc = "done" /\ ~Issued("qemu.post")) =>
           /\ exit = 1
           /\ \/ LastCallIs("nextid.get", FALSE)
              \/ LastCallIs("storage.get", TRUE)

C9_Witness ==
    /\ pc = "done"
    /\ Did("qemu.get", FALSE) /\ Did("storage.get", FALSE) /\ Did("qemu.post", TRUE)

\* C10: the creation parameters carry machine q35 and the host PCI entry
\* <address>,pcie=1,x-vga=0 exactly when GPU_PCI_ADDRESS is supplied,
\* whatever the other fields are.
C10_GpuPassthrough ==
    Built =>
        IF env.gpu_pci # None
        THEN /\ "machine" \in DOMAIN params /\ params.machine = "q35"
             /\ "hostpci0" \in DOMAIN params
             /\ params.hostpci0 = <<env.gpu_pci, ",pcie=1", ",x-vga=0">>
        ELSE "machine" \notin DOMAIN params /\ "hostpci0" \notin DOMAIN params

\* a GPU next to an installer image, a boot override, a storage fallback, a
\* pool and tags, in a creation call the hypervisor accepted
C10_Witness ==
    /\ Did("qemu.post", TRUE)
    /\ env.gpu_pci # None /\ env.iso_raw # <<>> /\ env.boot # None
    /\ env.pool # None /\ env.tags # None
    /\ storage # cfg.storage
    /\ params.machine = "q35"

\* C2: with a timeout of 0, or one shorter than the interval, fetch_guest_ip
\* has made at least one attempt when it returns not-found.
C2_AttemptBeforeNotFound ==
    (ppc = "returned" /\ ip = NoIp /\ (timeout = 0 \/ timeout < interval)) => poll >= 1

\* an address entry the poller is to accept: IPv4 by its type label, or by a dot
\* when it has no label, and neither loopback (127.0.) nor link-local (169.254.)
QualifyingEntry(e) ==
    /\ e.ip # NoIp
    /\ \/ StartsWith(Lower(e.type), LabelV4)
       \/ e.type = NoLabel /\ Contains(e.ip, ".")
    /\ ~StartsWith(e.ip, <<"169", ".", "254", ".">>)
    /\ ~StartsWith(e.ip, <<"127", ".", "0", ".">>)

\* the entries of a snapshot in enumeration order
RECURSIVE FlatEntries(_)
FlatEntries(ifs) ==
    IF ifs = <<>> THEN <<>> ELSE ifs[1].entries \o FlatEntries(Tail(ifs))

\* the first qualifying address of a snapshot in enumeration order, if any
FirstQualifying(body) ==
    LET es == FlatEntries(body.interfaces)
        Q == {i \in DOMAIN es : QualifyingEntry(es[i])}
    IN  IF Q = {} THEN NoIp ELSE es[Min(Q)].ip

\* the qualifying address an answer of the guest agent offers, if any
Offered(a) == IF ~a.getOk /\ ~a.postOk THEN NoIp ELSE FirstQualifying(a.body)

C4_FirstQualifying == parsed.done => parsed.ip = FirstQualifying(snapshot)

\* C11: an invocation of poll_for_ip.py that found no address within the
\* timeout ends with status 2 and nothing on stdout; success ends with status 0
\* and the address on stdout; a missing dependency, a missing or invalid
\* configuration and a connection failure end with a status that is neither.
C11_NotFoundStatus ==
    /\ (mpc = "done" /\ ppc = "returned" /\ ip = NoIp) =>
           /\ outcome = "not-found"
           /\ pexit = 2 /\ pout = <<>>
    /\ (mpc = "done" /\ ppc = "returned" /\ ip # NoIp) =>
           /\ outcome = "found"
           /\ pexit = 0 /\ pout = <<ip>>
    /\ (mpc = "done" /\ ppc # "returned") =>
           /\ outcome \in {"missing-dependency", "bad-configuration", "connection-failed"}
           /\ pexit \notin {0, 2, Running}
           /\ pout = <<>>

\* not-found after two attempts
C11_Witness ==
    /\ mpc = "done" /\ outcome = "not-found" /\ pexit = 2
    /\ poll >= 2

\* the failed invocations so far, the current one included
AllEnded ==
    ended \cup (IF pc = "done" /\ exit \notin {0, Running}
                THEN {<<FailureKind, exit>>} ELSE {})

\* C12: two invocations of create_vm.py that ended with different fatal error
\* kinds (connection, no suitable storage, id allocation, creation, start)
\* ended with different exit statuses.
C12_DistinctStatuses ==
    \A a, b \in AllEnded :
        (/\ a[1] # b[1]
         /\ {a[1], b[1]} \subseteq {"connection", "storage", "nextid", "creation", "start"})
        => a[2] # b[2]

TokenComplete == creds.token_name \notin {None, ""} /\ creds.token_value \notin {None, ""}
PasswordGiven ==
    /\ creds.user \notin {None, ""}
    /\ creds.password \notin {None, ""} \/ creds.pass \notin {None, ""}

\* C13: with a complete api-token the connection is made in token mode, whether
\* or not username and password are given; password mode is used only with
\* an incomplete token; with neither a complete token nor a username and
\* password the run ends with a failure status before any connection or call.
C13_CredentialMode ==
    /\ (pc # "connect" /\ creds.host \notin {None, ""} /\ TokenComplete) =>
           conn.mode = "token"
    /\ conn.mode = "password" => ~TokenComplete /\ PasswordGiven
    /\ (pc # "connect" /\ ~TokenComplete /\ ~PasswordGiven) =>
           /\ conn = NoConn /\ calls = <<>>
           /\ pc = "done" /\ exit \notin {0, Running}

\* token and password both given, and the run went on over a token connection
C13_Witness ==
    /\ TokenComplete /\ PasswordGiven
    /\ conn = [mode |-> "token", ok |-> TRUE]
    /\ Did("qemu.post", TRUE)

\* some item of the listing has a volume id of which IMAGE is a substring
ImageListed ==
    \E i \in DOMAIN storage_content :
        /\ storage_content[i].has_volid
        /\ LET v == storage_content[i].volid
           IN  \E a \in 1..Len(v) : \E b \in a..Len(v) : SubSeq(v, a, b) = ienv.image

\* C14: once the content listing has returned, evaluate_proxmox.py reports
\* found, with status 0, exactly when some item has a volume id that contains
\* IMAGE, items without a volume id being ignored; it reports not found with
\* status 2, and a failed listing call ends with another non-zero status.
C14_ImageCheck ==
    /\ (ipc = "done" /\ ioutcome \in {"found", "not-found"}) =>
           /\ ioutcome = "found" <=> ImageListed
           /\ iexit = 0 <=> ImageListed
    /\ ioutcome = "found" => iexit = 0
    /\ ioutcome = "not-found" => iexit = 2
    /\ ioutcome = "listing-failed" => iexit \notin {0, 2, Running}

\* found behind an item without a volume id, by a proper substring
C14_Witness ==
    /\ ioutcome = "found"
    /\ Len(storage_content) = 2
    /\ ~storage_content[1].has_volid
    /\ storage_content[2].volid # ienv.image

CallIndex(op) == {i \in DOMAIN calls : calls[i][1] = op}
Before(op, ok, i) == \E j \in 1..(i - 1) : calls[j] = <<op, ok>>
FoundExisting == \E i \in DOMAIN stdout : stdout[i].text = "Existing VM"

\* C15: in one run the VM listing is the first call; the next-id request is
\* made only when no VMID was given and the listing found no VM of the name;
\* the creation call is made with a known id, after the next-id request
\* answered when no VMID was given; the start call is made only after a
\* successful creation call and with START_VM set; at most one creation and
\* one start call are made; a run that found an existing VM makes no other call.
C15_CallOrder ==
    /\ calls # <<>> => calls[1][1] = "qemu.get"
    /\ Cardinality(CallIndex("qemu.get")) <= 1
    /\ Issued("nextid.get") =>
           /\ cfg.vmid = NoVmid
           /\ ~FoundExisting
           /\ (Did("qemu.get", TRUE) /\ ~Issued("qemu.post")) => Named(cfg.name) = {}
    /\ \A i \in CallIndex("qemu.post") :
           /\ params.vmid # NoVmid
           /\ cfg.vmid = NoVmid => Before("nextid.get", TRUE, i)
           /\ cfg.vmid # NoVmid => params.vmid = cfg.vmid
    /\ \A i \in CallIndex("start.post") :
           /\ Before("qemu.post", TRUE, i)
           /\ env.start_vm
    /\ Cardinality(CallIndex("qemu.post")) <= 1
    /\ Cardinality(CallIndex("start.post")) <= 1
    /\ FoundExisting => calls = << <<"qemu.get", TRUE>> >> /\ pc = "done"

\* a second run that finds the VM the first one created
C15_Witness ==
    /\ run = 2 /\ pc = "done" /\ FoundExisting
    /\ Len(created) = 1 /\ created[1].ok

\* C16: the name in the creation parameters is the requested VM name, for
\* every storage listing.
C16_NameUnchanged == Built => params.name = cfg.name /\ name = cfg.name

\* C17: the address _parse_interfaces_for_ipv4 returns is the address of an
\* entry that has no type label or an IPv4 label.
C17_LabelledNonIpv4Skipped ==
    (parsed.done /\ parsed.ip # NoIp) =>
        \E i \in DOMAIN FlatEntries(snapshot.interfaces) :
            LET e == FlatEntries(snapshot.interfaces)[i]
            IN  /\ e.ip = parsed.ip
                /\ e.type = NoLabel \/ StartsWith(Lower(e.type), LabelV4)

\* C18: fetch_guest_ip returns no later than timeout plus one query round
\* trip after it was called.
C18_BoundedBlocking == ppc = "returned" => now <= timeout + MaxRtt

\* C19: with BOOT set, the boot order in the creation parameters is BOOT.
C19_BootOverride ==
    (Built /\ env.boot # None) => ("boot" \in DOMAIN params /\ params.boot = env.boot)

CloudinitKeys == {"ciuser", "cipassword", "ipconfig0"}
HasCloudinitDisk ==
    "ide2" \in DOMAIN params /\ params.ide2[Len(params.ide2)] = "cloudinit"

\* C20: creation parameters built with an installer image hold the image as
\* CD-ROM on ide2 and neither a cloud-init disk nor ciuser, cipassword or
\* ipconfig0, whatever the cloud-init settings are; a cloud-init disk or field
\* is present only without an installer image and with cloud-init enabled.
C20_BootSourcesExclusive ==
    Built =>
        /\ env.iso_raw # <<>> =>
              /\ params.ide2[Len(params.ide2)] = ",media=cdrom"
              /\ IsSuffix(env.iso_raw, SubSeq(params.ide2, 1, Len(params.ide2) - 1))
              /\ ~HasCloudinitDisk
              /\ DOMAIN params \cap CloudinitKeys = {}
        /\ (HasCloudinitDisk \/ DOMAIN params \cap CloudinitKeys # {}) =>
              /\ env.iso_raw = <<>>
              /\ ~env.disable_cloudinit /\ env.cloudinit

\* an installer image with cloud-init enabled and its values supplied, in a
\* creation call the hypervisor accepted
C20_Witness ==
    /\ Did("qemu.post", TRUE)
    /\ env.iso_raw # <<>>
    /\ ~env.disable_cloudinit /\ env.cloudinit
    /\ env.cipassword # None /\ env.ipconfig0 # <<>>

\* C21: when the clock advances and every query and sleep completes,
\* fetch_guest_ip eventually returns, with an address or with not-found,
\* whatever the guest agent answers; once it has returned it makes no further
\* attempt and its result stays.
C21_Terminates ==
    /\ <>(ppc = "returned")
    /\ [][ppc = "returned" => UNCHANGED <<poll, answers, ip>>]_vars

\* not-found after two or more attempts in which GET and POST both raised
C21_Witness ==
    /\ ppc = "returned" /\ ip = NoIp
    /\ poll >= 2
    /\ \A i \in DOMAIN answers : ~answers[i].getOk /\ ~answers[i].postOk

====
